---- MODULE Spec2Model ----
(***************************************************************************)
(* touying2video: src/main.py.                                             *)
(*                                                                         *)
(* Three state machines over one set of variables:                         *)
(*   SpecQuery      query() (lines 44-126) followed by the flattening of   *)
(*                  the speech texts in main() (lines 349-351);            *)
(*   SpecCompose    compose_video_clip() (lines 219-336);                  *)
(*   SpecDimension  dimension_to_absolute() (lines 240-250).               *)
(*                                                                         *)
(* Time is counted in ticks of 0.2 s, so that the program's 2 s default    *)
(* slide duration, 0.2 s audio gap and 0.8 s transition are the integers   *)
(* 10, 1 and 4.  Python's float division in line 98 is exact on the values *)
(* the model draws (LogicalSeconds is divisible by every slide count).     *)
(***************************************************************************)
EXTENDS Integers, Sequences, FiniteSets, TLC

\* ------------------------------------------------------------------ bounds
MaxPages == 3
MaxDirectives == 3
MaxSlides == 3
MaxClips == 3
MaxOverlays == 1

\* ------------------------------------------------------- program constants
\* defaults['duration_physical'] = 2 (seconds), in ticks
DefaultDurationPhysical == 10

VARIABLES
    pc,                          \* position in query()/main() or compose_video_clip()
    err,                         \* the exception that ended the run, or "none"
    \* query()
    J,                           \* the parsed <pdfpc-file> value: [pages |-> ...]
    page_i,                      \* index of the page the loop of line 65 is at
    logical_slide_to_speech,
    physical_count,
    logical_i,                   \* index of the pair the loop of line 80 is at
    item_i,                      \* index of the item the loop of line 89 is at
    this_physical_slides,
    is_non_defaut_duration_set,
    physical_slide_to_speech,
    speech_texts,                \* main(), lines 349-351
    \* compose_video_clip(): parameters (physical_slide_to_speech is the first)
    physical_slide_images,
    speech_data,
    transition,
    audio_gap,
    \* compose_video_clip(): locals
    still_requied,
    time_played,
    audio_started,
    video_clips,
    audio_clips,
    physical_slide_i,            \* 0-based, as enumerate() counts
    this_duration,
    total_audio_time_in_this_slide,
    speech_i,                    \* index of the speech the loop of line 297 is at
    \* dimension_to_absolute()
    dimension,
    reference,
    absolute                     \* the value returned, [t |-> "unset"] before the return

qvars == <<J, page_i, logical_slide_to_speech, physical_count, logical_i, item_i,
           this_physical_slides, is_non_defaut_duration_set,
           physical_slide_to_speech, speech_texts>>

cvars == <<physical_slide_images, speech_data, transition, audio_gap, still_requied,
           time_played, audio_started, video_clips, audio_clips, physical_slide_i,
           this_duration, total_audio_time_in_this_slide, speech_i>>

\* dimension_to_absolute(): the parameters and the value returned
dvars == <<dimension, reference, absolute>>

vars == <<pc, err, qvars, cvars, dvars>>

\* dimension_to_absolute() before it is called
DimensionIdle ==
    /\ dimension = [t |-> "None"]
    /\ reference = 0
    /\ absolute = [t |-> "unset"]

\* ------------------------------------------------------------ sequences
Last(s) == s[Len(s)]

Max(a, b) == IF a >= b THEN a ELSE b

\* [x] * n
Repeat(x, n) == [i \in 1..n |-> x]

RECURSIVE Concat(_)
Concat(ss) == IF ss = <<>> THEN <<>> ELSE Head(ss) \o Concat(Tail(ss))

\* --------------------------------------------------------- query(): input
\* item['v'] of a 'T2s-duration-logical' item, in ticks
LogicalSeconds == {12}

\* item['v'] of a 'T2s-duration-physical' item
PhysicalSeconds == {<<>>, <<5>>, <<1, 2>>}

StartFroms == {0, 1, 2}

\* The items of page['t2s'].  The body of a 'T2s' item is stamped with its
\* place in the document by Stamp below, so that every cue is told apart.
Items ==
    [t : {"T2s"}, start_from : StartFroms, body : {<<0, 0>>}]
        \cup [t : {"T2s-duration-logical"}, v : LogicalSeconds]
        \cup [t : {"T2s-duration-physical"}, v : PhysicalSeconds]
        \cup [t : {"T2s-video-overlay"}, start_from : {1, 2}, video : {"a.mp4"}]

\* query() reads 't2s' only on a page that is not hidden and has overlay 0.
\* Every hidden page of the model carries one cue, which must leave no trace;
\* a page with overlay > 0 carries none.
HiddenT2s == <<[t |-> "T2s", start_from |-> 1, body |-> <<0, 0>>]>>

PageKinds == [hidden : BOOLEAN, overlay : {0, 1}]

Opens(kind) == ~kind.hidden /\ kind.overlay = 0

\* The pages of kinds `kinds`, where item k of `items` is on page at[k].
Pages(kinds, items, at) ==
    [p \in 1..Len(kinds) |->
        [hidden |-> kinds[p].hidden,
         overlay |-> kinds[p].overlay,
         t2s |-> IF kinds[p].hidden THEN HiddenT2s
                 ELSE LET ks == {k \in 1..Len(items) : at[k] = p}
                      IN [j \in 1..Cardinality(ks) |->
                             items[CHOOSE k \in ks : Cardinality({x \in ks : x < k}) = j - 1]]]]

StampItem(it, p, k) == IF it.t = "T2s" THEN [it EXCEPT !.body = <<p, k>>] ELSE it

Stamp(pages) ==
    [p \in 1..Len(pages) |->
        [pages[p] EXCEPT !.t2s = [k \in 1..Len(pages[p].t2s) |-> StampItem(pages[p].t2s[k], p, k)]]]

\* A document of at most MaxPages pages whose logical slides hold at most
\* MaxDirectives items between them.
IsDocument(doc) ==
    \E n \in 0..MaxPages, k \in 0..MaxDirectives :
        \E kinds \in [1..n -> PageKinds], at \in [1..k -> 1..n] :
            /\ \A i \in 1..k : Opens(kinds[at[i]])
            /\ \A i \in 1..k, j \in 1..k : i <= j => at[i] <= at[j]
            /\ \E items \in [1..k -> Items] :
                   doc = [pages |-> Stamp(Pages(kinds, items, at))]

\* ------------------------------------------------------- query(): helpers
NewPhysicalSlide ==
    [speeches |-> <<>>, video_overlays |-> <<>>, duration |-> DefaultDurationPhysical]

\* the cue is counted from 0
StartIndexFromZero(start_from) == Max(start_from, 0) + 1

\* start_from = max(item['v']['start_from'] - 1, 0), as a 1-based index
StartIndex(start_from) == Max(start_from - 1, 0) + 1

\* lines 92 and 114: start_from < physical_count, on the 1-based index
InRange(start_from, count) == start_from <= count

\* lines 102-109; durations is not empty when it is shorter than count
Reconcile(durations, count) ==
    IF Len(durations) < count
        THEN durations \o Repeat(Last(durations), count - Len(durations))
    ELSE IF Len(durations) > count
        THEN SubSeq(durations, 1, count)
    ELSE durations

Fail(e) == /\ pc' = "failed"
           /\ err' = e

\* compose_video_clip() before it is called
ComposeIdle ==
    /\ physical_slide_images = <<>>
    /\ speech_data = <<>>
    /\ transition = [type |-> "none", duration |-> 0]
    /\ audio_gap = 0
    /\ still_requied = 0
    /\ time_played = 0
    /\ audio_started = 0
    /\ video_clips = <<>>
    /\ audio_clips = <<>>
    /\ physical_slide_i = 0
    /\ this_duration = 0
    /\ total_audio_time_in_this_slide = 0
    /\ speech_i = 1

\* ------------------------------------------------------- query(): actions
InitQuery ==
    /\ IsDocument(J)
    /\ pc = IF J.pages = <<>> THEN "replay" ELSE "group"
    /\ err = "none"
    /\ page_i = 1
    /\ logical_slide_to_speech = <<>>
    /\ physical_count = <<>>
    /\ logical_i = 1
    /\ item_i = 1
    /\ this_physical_slides = <<>>
    /\ is_non_defaut_duration_set = FALSE
    /\ physical_slide_to_speech = <<>>
    /\ speech_texts = <<>>
    /\ ComposeIdle
    /\ DimensionIdle

\* a hidden page is skipped only when it opens a logical slide
GroupPageHiddenOverlayCounted ==
    /\ pc = "group"
    /\ LET physical_slide == J.pages[page_i]
           more == IF page_i = Len(J.pages) THEN "replay" ELSE "group"
       IN
       IF physical_slide.overlay = 0
           THEN /\ IF physical_slide.hidden
                       THEN UNCHANGED <<logical_slide_to_speech, physical_count>>
                   ELSE /\ logical_slide_to_speech' =
                               Append(logical_slide_to_speech, physical_slide.t2s)
                        /\ physical_count' = Append(physical_count, 1)
                /\ pc' = more
                /\ page_i' = page_i + 1
                /\ UNCHANGED err
       ELSE IF physical_count = <<>>
           THEN /\ Fail("IndexError: physical_count[-1]")
                /\ UNCHANGED <<page_i, logical_slide_to_speech, physical_count>>
       ELSE /\ physical_count' = [physical_count EXCEPT ![Len(physical_count)] = @ + 1]
            /\ pc' = more
            /\ page_i' = page_i + 1
            /\ UNCHANGED <<err, logical_slide_to_speech>>
    /\ UNCHANGED <<J, logical_i, item_i, this_physical_slides,
                   is_non_defaut_duration_set, physical_slide_to_speech, speech_texts, cvars>>
    /\ UNCHANGED dvars

\* lines 65-74: one page of J['pages']
GroupPage ==
    /\ pc = "group"
    /\ LET physical_slide == J.pages[page_i]
           more == IF page_i = Len(J.pages) THEN "replay" ELSE "group"
       IN
       IF physical_slide.hidden
           THEN /\ pc' = more
                /\ page_i' = page_i + 1
                /\ UNCHANGED <<err, logical_slide_to_speech, physical_count>>
       ELSE IF physical_slide.overlay = 0
           THEN /\ logical_slide_to_speech' = Append(logical_slide_to_speech, physical_slide.t2s)
                /\ physical_count' = Append(physical_count, 1)
                /\ pc' = more
                /\ page_i' = page_i + 1
                /\ UNCHANGED err
       ELSE IF physical_count = <<>>
           THEN /\ Fail("IndexError: physical_count[-1]")
                /\ UNCHANGED <<page_i, logical_slide_to_speech, physical_count>>
       ELSE /\ physical_count' = [physical_count EXCEPT ![Len(physical_count)] = @ + 1]
            /\ pc' = more
            /\ page_i' = page_i + 1
            /\ UNCHANGED <<err, logical_slide_to_speech>>
    /\ UNCHANGED <<J, logical_i, item_i, this_physical_slides,
                   is_non_defaut_duration_set, physical_slide_to_speech, speech_texts, cvars>>
    /\ UNCHANGED dvars

\* lines 80-88: the next (logical_slide, physical_count) pair
BeginLogical ==
    /\ pc = "replay"
    /\ logical_i <= Len(logical_slide_to_speech)
    /\ this_physical_slides' = Repeat(NewPhysicalSlide, physical_count[logical_i])
    /\ is_non_defaut_duration_set' = FALSE
    /\ item_i' = 1
    /\ pc' = "items"
    /\ UNCHANGED <<err, J, page_i, logical_slide_to_speech, physical_count, logical_i,
                   physical_slide_to_speech, speech_texts, cvars>>
    /\ UNCHANGED dvars

\* lines 90-93
ItemT2s(item, count) ==
    LET start_from == StartIndex(item.start_from) IN
    IF ~InRange(start_from, count)
        THEN /\ Fail("AssertionError: start_from")
             /\ UNCHANGED <<this_physical_slides, is_non_defaut_duration_set>>
    ELSE /\ this_physical_slides' =
                [this_physical_slides EXCEPT ![start_from].speeches = Append(@, item.body)]
         /\ UNCHANGED <<pc, err, is_non_defaut_duration_set>>

\* lines 94-98
ItemDurationLogical(item, count) ==
    IF is_non_defaut_duration_set
        THEN /\ Fail("AssertionError: multiple duration")
             /\ UNCHANGED <<this_physical_slides, is_non_defaut_duration_set>>
    ELSE /\ is_non_defaut_duration_set' = TRUE
         /\ this_physical_slides' =
                [i \in 1..Len(this_physical_slides) |->
                    [this_physical_slides[i] EXCEPT !.duration = item.v \div count]]
         /\ UNCHANGED <<pc, err>>

\* the physical override does not record that a duration was set
ItemDurationPhysicalUnrecorded(item, count) ==
    IF is_non_defaut_duration_set
        THEN /\ Fail("AssertionError: multiple duration")
             /\ UNCHANGED <<this_physical_slides, is_non_defaut_duration_set>>
    ELSE /\ UNCHANGED is_non_defaut_duration_set
         /\ IF Len(item.v) < count /\ item.v = <<>>
                THEN /\ Fail("IndexError: durations[-1]")
                     /\ UNCHANGED this_physical_slides
            ELSE /\ LET durations == Reconcile(item.v, count) IN
                    this_physical_slides' =
                        [i \in 1..Len(this_physical_slides) |->
                            IF i <= Len(durations)
                                THEN [this_physical_slides[i] EXCEPT !.duration = durations[i]]
                            ELSE this_physical_slides[i]]
                 /\ UNCHANGED <<pc, err>>

\* lines 99-111
ItemDurationPhysical(item, count) ==
    IF is_non_defaut_duration_set
        THEN /\ Fail("AssertionError: multiple duration")
             /\ UNCHANGED <<this_physical_slides, is_non_defaut_duration_set>>
    ELSE /\ is_non_defaut_duration_set' = TRUE
         /\ IF Len(item.v) < count /\ item.v = <<>>
                THEN /\ Fail("IndexError: durations[-1]")
                     /\ UNCHANGED this_physical_slides
            ELSE /\ LET durations == Reconcile(item.v, count) IN
                    this_physical_slides' =
                        [i \in 1..Len(this_physical_slides) |->
                            IF i <= Len(durations)
                                THEN [this_physical_slides[i] EXCEPT !.duration = durations[i]]
                            ELSE this_physical_slides[i]]
                 /\ UNCHANGED <<pc, err>>

\* lines 112-115
ItemVideoOverlay(item, count) ==
    LET start_from == StartIndex(item.start_from) IN
    IF ~InRange(start_from, count)
        THEN /\ Fail("AssertionError: start_from")
             /\ UNCHANGED <<this_physical_slides, is_non_defaut_duration_set>>
    ELSE /\ this_physical_slides' =
                [this_physical_slides EXCEPT ![start_from].video_overlays = Append(@, item)]
         /\ UNCHANGED <<pc, err, is_non_defaut_duration_set>>

\* lines 89-118: one item of the logical slide
ReplayItem ==
    /\ pc = "items"
    /\ item_i <= Len(logical_slide_to_speech[logical_i])
    /\ LET item == logical_slide_to_speech[logical_i][item_i]
           count == physical_count[logical_i]
       IN CASE item.t = "T2s" -> ItemT2s(item, count)
            [] item.t = "T2s-duration-logical" -> ItemDurationLogical(item, count)
            [] item.t = "T2s-duration-physical" -> ItemDurationPhysical(item, count)
            [] item.t = "T2s-video-overlay" -> ItemVideoOverlay(item, count)
            [] OTHER -> /\ Fail("ValueError: unknown type")
                        /\ UNCHANGED <<this_physical_slides, is_non_defaut_duration_set>>
    /\ item_i' = IF pc' = "failed" THEN item_i ELSE item_i + 1
    /\ UNCHANGED <<J, page_i, logical_slide_to_speech, physical_count, logical_i,
                   physical_slide_to_speech, speech_texts, cvars>>
    /\ UNCHANGED dvars

\* line 120
EndLogical ==
    /\ pc = "items"
    /\ item_i > Len(logical_slide_to_speech[logical_i])
    /\ physical_slide_to_speech' = physical_slide_to_speech \o this_physical_slides
    /\ logical_i' = logical_i + 1
    /\ pc' = "replay"
    /\ UNCHANGED <<err, J, page_i, logical_slide_to_speech, physical_count, item_i,
                   this_physical_slides, is_non_defaut_duration_set, speech_texts, cvars>>
    /\ UNCHANGED dvars

\* lines 122-126
Return ==
    /\ pc = "replay"
    /\ logical_i > Len(logical_slide_to_speech)
    /\ pc' = "returned"
    /\ UNCHANGED <<err, qvars, cvars>>
    /\ UNCHANGED dvars

\* the slides are read from the last to the first
SpeechTextsBackwards(slides) ==
    Concat([i \in 1..Len(slides) |-> slides[Len(slides) + 1 - i].speeches])

\* main(), lines 349-351
SpeechTexts(slides) == Concat([i \in 1..Len(slides) |-> slides[i].speeches])

Flatten ==
    /\ pc = "returned"
    /\ speech_texts' = SpeechTexts(physical_slide_to_speech)
    /\ pc' = "flattened"
    /\ UNCHANGED <<err, J, page_i, logical_slide_to_speech, physical_count, logical_i, item_i,
                   this_physical_slides, is_non_defaut_duration_set, physical_slide_to_speech,
                   cvars>>
    /\ UNCHANGED dvars

NextQuery == GroupPage \/ BeginLogical \/ ReplayItem \/ EndLogical \/ Return \/ Flatten

SpecQuery == InitQuery /\ [][NextQuery]_vars

\* ------------------------------------------- compose_video_clip(): input
\* physical_slide['duration'], in ticks: no override in the document
SlideDurations == {DefaultDurationPhysical}

\* VideoFileClip(typst_root_dir / video).duration, in ticks: the length of the
\* video file, which the program reads from the disk
VideoFileClipDuration(video) == 20

OverlayCue == [t |-> "T2s-video-overlay", start_from |-> 1, video |-> "a.mp4"]

\* gen_speech(): the placeholder of an empty text (lines 147-153, 179-185), or
\* a synthesized clip with its duration in ticks
SpeechClips ==
    {[duration |-> 0, audio_clip |-> FALSE]} \cup [duration : {15}, audio_clip : {TRUE}]

\* the transition parameter: main() passes the document's defaults
Transitions ==
    {[type |-> "none", duration |-> 0], [type |-> "fade", duration |-> 4],
     [type |-> "none", duration |-> 4], [type |-> "fade", duration |-> 0]}

AudioGaps == {-1, 0, 1}

\* slides_to_images(): image_files of m pages
Images(m) == [i \in 1..m |-> i - 1]

\* ------------------------------------------ compose_video_clip(): helpers
Min(a, b) == IF a <= b THEN a ELSE b

\* zip(physical_slide_to_speech, physical_slide_images), line 264
Walked == Min(Len(physical_slide_to_speech), Len(physical_slide_images))

\* lines 268-291: overlay_length over the overlays of a slide
RECURSIVE OverlayLength(_)
OverlayLength(overlays) ==
    IF overlays = <<>> THEN 0
    ELSE Max(OverlayLength(SubSeq(overlays, 1, Len(overlays) - 1)),
             VideoFileClipDuration(Last(overlays).video))

\* lines 272-274, 290: the overlay clips of a slide, in order
OverlayClips(overlays, start) ==
    [k \in 1..Len(overlays) |->
        [kind |-> "video", source |-> overlays[k].video, start |-> start,
         duration |-> VideoFileClipDuration(overlays[k].video), layer |-> 2, effects |-> <<>>]]

\* line 271
OverlayStartOk(overlay) == Max(overlay.start_from - 1, 0) < Len(physical_slide_to_speech)

\* the duration is enlengthened on every slide
IsLastForAudioAlways(i) == TRUE

\* the duration is never enlengthened
IsLastForAudioNever(i) == FALSE

\* lines 312-314
IsLastForAudio(i) ==
    \/ i = Len(physical_slide_to_speech) - 1
    \/ Len(physical_slide_to_speech[i + 2].speeches) > 0

\* the gap is not added to the narration still to play
EnlengthenNoGap(duration, required, gap) == Max(duration, required)

\* line 315
Enlengthen(duration, required, gap) == Max(duration, required + gap)

\* the duration stays what it was after the overlays
FinalDurationUnextended(i, duration, required, gap) == duration

\* lines 312-315
FinalDuration(i, duration, required, gap) ==
    IF IsLastForAudio(i) THEN Enlengthen(duration, required, gap) ELSE duration

\* the backlog is not floored
DecayUnfloored(required, duration) == required - duration

\* line 316
Decay(required, duration) == Max(0, required - duration)

\* the first slide fades in as well
ImageClipFadeOnFirst(i, image, start, duration, trans) ==
    [kind |-> "image", source |-> image, start |-> start,
     duration |-> duration + trans.duration, layer |-> 0,
     effects |-> IF trans.type = "fade"
                     THEN <<[fx |-> "CrossFadeIn", duration |-> trans.duration]>>
                 ELSE <<>>]

\* lines 319-325
ImageClip(i, image, start, duration, trans) ==
    [kind |-> "image", source |-> image, start |-> start,
     duration |-> duration + trans.duration, layer |-> 0,
     effects |-> IF i > 0 /\ trans.type = "fade"
                     THEN <<[fx |-> "CrossFadeIn", duration |-> trans.duration]>>
                 ELSE <<>>]

\* the transition is counted into the clock
AdvanceWithTransition(played, duration, trans) == played + duration + trans.duration

\* line 329
Advance(played, duration, trans) == played + duration

\* the assertion is left out
AudiosNotChecked(required) == TRUE

\* line 298
AudiosFinished(required) == required = 0

\* the placeholder is scheduled like a clip
IsPlaceholderNever(clip) == FALSE

\* line 301: audio_clip is None
IsPlaceholder(clip) == ~clip.audio_clip

\* lines 305-306
StartedAudio(cursor, played, offset) == [clip |-> cursor, start |-> played + offset]

\* the gap is not counted into the slide's narration time
AudioTimeNoGap(total, clip, gap) == total + clip.duration

\* line 307
AudioTime(total, clip, gap) == total + clip.duration + gap

\* ------------------------------------------ compose_video_clip(): actions
InitCompose ==
    /\ \E n \in 1..MaxSlides, k \in 0..MaxClips, v \in 0..MaxOverlays :
           \E at \in [1..k -> 1..n], on \in [1..v -> 1..n] :
               /\ \A i \in 1..k, j \in 1..k : i <= j => at[i] <= at[j]
               /\ \A i \in 1..v, j \in 1..v : i <= j => on[i] <= on[j]
               /\ \E durations \in [1..n -> SlideDurations] :
                      physical_slide_to_speech =
                          [i \in 1..n |->
                              [speeches |-> Repeat(<<0, 0>>, Cardinality({j \in 1..k : at[j] = i})),
                               video_overlays |->
                                   Repeat(OverlayCue, Cardinality({j \in 1..v : on[j] = i})),
                               duration |-> durations[i]]]
               /\ speech_data \in [1..k -> SpeechClips]
    /\ physical_slide_images \in {Images(m) : m \in 0..MaxSlides}
    /\ transition \in Transitions
    /\ audio_gap \in AudioGaps
    /\ pc = "check"
    /\ err = "none"
    /\ J = [pages |-> <<>>]
    /\ page_i = 1
    /\ logical_slide_to_speech = <<>>
    /\ physical_count = <<>>
    /\ logical_i = 1
    /\ item_i = 1
    /\ this_physical_slides = <<>>
    /\ is_non_defaut_duration_set = FALSE
    /\ speech_texts = <<>>
    /\ still_requied = 0
    /\ time_played = 0
    /\ audio_started = 0
    /\ video_clips = <<>>
    /\ audio_clips = <<>>
    /\ physical_slide_i = 0
    /\ this_duration = 0
    /\ total_audio_time_in_this_slide = 0
    /\ speech_i = 1
    /\ DimensionIdle

\* the transition is not checked
CheckTransitionUnchecked ==
    /\ pc = "check"
    /\ still_requied' = 0
    /\ time_played' = 0
    /\ audio_started' = 0
    /\ video_clips' = <<>>
    /\ audio_clips' = <<>>
    /\ pc' = "slide"
    /\ UNCHANGED <<err, qvars, physical_slide_images, speech_data, transition, audio_gap,
                   physical_slide_i, this_duration, total_audio_time_in_this_slide, speech_i>>
    /\ UNCHANGED dvars

\* lines 253-262
CheckTransition ==
    /\ pc = "check"
    /\ IF transition.type = "none" /\ transition.duration # 0
           THEN /\ Fail("ValueError: transition")
                /\ UNCHANGED <<still_requied, time_played, audio_started, video_clips,
                               audio_clips>>
       ELSE /\ still_requied' = 0
            /\ time_played' = 0
            /\ audio_started' = 0
            /\ video_clips' = <<>>
            /\ audio_clips' = <<>>
            /\ pc' = "slide"
            /\ UNCHANGED err
    /\ UNCHANGED <<qvars, physical_slide_images, speech_data, transition, audio_gap,
                   physical_slide_i, this_duration, total_audio_time_in_this_slide, speech_i>>
    /\ UNCHANGED dvars

\* lines 263-296: the next (physical_slide, physical_slide_img) pair, its
\* overlays, and the start of its speeches
BeginSlide ==
    /\ pc = "slide"
    /\ physical_slide_i < Walked
    /\ LET physical_slide == physical_slide_to_speech[physical_slide_i + 1]
           overlays == physical_slide.video_overlays
           bad == {k \in 1..Len(overlays) : ~OverlayStartOk(overlays[k])}
       IN IF bad # {}
              THEN /\ Fail("AssertionError: start_from")
                   /\ video_clips' = video_clips \o
                          SubSeq(OverlayClips(overlays, time_played), 1,
                                 (CHOOSE k \in bad : \A x \in bad : k <= x) - 1)
                   /\ UNCHANGED <<this_duration, total_audio_time_in_this_slide, speech_i>>
          ELSE /\ video_clips' = video_clips \o OverlayClips(overlays, time_played)
               /\ this_duration' = Max(physical_slide.duration, OverlayLength(overlays))
               /\ total_audio_time_in_this_slide' = 0
               /\ speech_i' = 1
               /\ pc' = "speech"
               /\ UNCHANGED err
    /\ UNCHANGED <<qvars, physical_slide_images, speech_data, transition, audio_gap,
                   still_requied, time_played, audio_started, audio_clips, physical_slide_i>>
    /\ UNCHANGED dvars

\* a placeholder is passed over without moving the cursor
PlaySpeechCursorKept ==
    /\ pc = "speech"
    /\ speech_i <= Len(physical_slide_to_speech[physical_slide_i + 1].speeches)
    /\ IF ~AudiosFinished(still_requied)
           THEN /\ Fail("AssertionError: audios are not finished")
                /\ UNCHANGED <<audio_started, audio_clips, total_audio_time_in_this_slide,
                               speech_i>>
       ELSE IF audio_started >= Len(speech_data)
           THEN /\ Fail("IndexError: speech_data")
                /\ UNCHANGED <<audio_started, audio_clips, total_audio_time_in_this_slide,
                               speech_i>>
       ELSE LET clip == speech_data[audio_started + 1] IN
            /\ IF IsPlaceholder(clip)
                   THEN UNCHANGED <<audio_started, audio_clips, total_audio_time_in_this_slide>>
               ELSE /\ audio_clips' =
                           Append(audio_clips,
                                  StartedAudio(audio_started, time_played,
                                               total_audio_time_in_this_slide))
                    /\ total_audio_time_in_this_slide' =
                           AudioTime(total_audio_time_in_this_slide, clip, audio_gap)
                    /\ audio_started' = audio_started + 1
            /\ speech_i' = speech_i + 1
            /\ UNCHANGED <<pc, err>>
    /\ UNCHANGED <<qvars, physical_slide_images, speech_data, transition, audio_gap,
                   still_requied, time_played, video_clips, physical_slide_i, this_duration>>
    /\ UNCHANGED dvars

\* lines 297-308: one speech of the slide
PlaySpeech ==
    /\ pc = "speech"
    /\ speech_i <= Len(physical_slide_to_speech[physical_slide_i + 1].speeches)
    /\ IF ~AudiosFinished(still_requied)
           THEN /\ Fail("AssertionError: audios are not finished")
                /\ UNCHANGED <<audio_started, audio_clips, total_audio_time_in_this_slide,
                               speech_i>>
       ELSE IF audio_started >= Len(speech_data)
           THEN /\ Fail("IndexError: speech_data")
                /\ UNCHANGED <<audio_started, audio_clips, total_audio_time_in_this_slide,
                               speech_i>>
       ELSE LET clip == speech_data[audio_started + 1] IN
            /\ IF IsPlaceholder(clip)
                   THEN UNCHANGED <<audio_clips, total_audio_time_in_this_slide>>
               ELSE /\ audio_clips' =
                           Append(audio_clips,
                                  StartedAudio(audio_started, time_played,
                                               total_audio_time_in_this_slide))
                    /\ total_audio_time_in_this_slide' =
                           AudioTime(total_audio_time_in_this_slide, clip, audio_gap)
            /\ audio_started' = audio_started + 1
            /\ speech_i' = speech_i + 1
            /\ UNCHANGED <<pc, err>>
    /\ UNCHANGED <<qvars, physical_slide_images, speech_data, transition, audio_gap,
                   still_requied, time_played, video_clips, physical_slide_i, this_duration>>
    /\ UNCHANGED dvars

\* lines 309-329: the end of the slide's speeches, its duration and its frame
EndSlide ==
    /\ pc = "speech"
    /\ speech_i > Len(physical_slide_to_speech[physical_slide_i + 1].speeches)
    /\ LET required == still_requied + total_audio_time_in_this_slide
           duration == FinalDuration(physical_slide_i, this_duration, required, audio_gap)
       IN /\ this_duration' = duration
          /\ still_requied' = Decay(required, duration)
          /\ video_clips' =
                 Append(video_clips,
                        ImageClip(physical_slide_i, physical_slide_images[physical_slide_i + 1],
                                  time_played, duration, transition))
          /\ time_played' = Advance(time_played, duration, transition)
    /\ physical_slide_i' = physical_slide_i + 1
    /\ pc' = "slide"
    /\ UNCHANGED <<err, qvars, physical_slide_images, speech_data, transition, audio_gap,
                   audio_started, audio_clips, total_audio_time_in_this_slide, speech_i>>
    /\ UNCHANGED dvars

\* lines 333-336
Composite ==
    /\ pc = "slide"
    /\ physical_slide_i >= Walked
    /\ pc' = "composed"
    /\ UNCHANGED <<err, qvars, cvars>>
    /\ UNCHANGED dvars

NextCompose == CheckTransition \/ BeginSlide \/ PlaySpeech \/ EndSlide \/ Composite

SpecCompose == InitCompose /\ [][NextCompose]_vars


\* ---------------------------------------- dimension_to_absolute(): input
\* the reference: size[0] and size[1] of line 229, and small canvases
References == {0, 3, 10, 100, 1080, 1920}

\* The number a dimension holds or spells, in hundredths.  The values are whole
\* numbers and halves, which Python's floats hold exactly, so that the float
\* arithmetic of line 247 is the arithmetic of the model.
Hundredths == {-250, -100, 0, 50, 100, 150, 250, 1500, 3300, 5000, 10000, 12550}

\* None, a string that ends with '%', a string that does not, an int or float
Dimensions ==
    {[t |-> "None"]}
        \cup [t : {"str"}, percent : BOOLEAN, num : Hundredths]
        \cup [t : {"number"}, num : Hundredths]

\* ------------------------------------- dimension_to_absolute(): the function
\* int(n / d): the quotient without its fraction, towards 0
IntOf(n, d) == IF n >= 0 THEN n \div d ELSE -((-n) \div d)

\* lines 240-250; dimension.num is in hundredths
dimension_to_absolute(dim, ref) ==
    IF dim.t = "None" THEN [t |-> "None"]
    ELSE IF dim.t = "str" /\ dim.percent
        THEN [t |-> "int", v |-> IntOf(ref * dim.num, 100 * 100)]
    ELSE [t |-> "int", v |-> IntOf(dim.num, 100)]

InitDimension ==
    /\ dimension \in Dimensions
    /\ reference \in References
    /\ absolute = [t |-> "unset"]
    /\ pc = "dimension"
    /\ err = "none"
    /\ J = [pages |-> <<>>]
    /\ page_i = 1
    /\ logical_slide_to_speech = <<>>
    /\ physical_count = <<>>
    /\ logical_i = 1
    /\ item_i = 1
    /\ this_physical_slides = <<>>
    /\ is_non_defaut_duration_set = FALSE
    /\ physical_slide_to_speech = <<>>
    /\ speech_texts = <<>>
    /\ ComposeIdle

\* a call of dimension_to_absolute() (lines 276-281)
CallDimensionToAbsolute ==
    /\ pc = "dimension"
    /\ absolute' = dimension_to_absolute(dimension, reference)
    /\ pc' = "resolved"
    /\ UNCHANGED <<err, qvars, cvars, dimension, reference>>

NextDimension == CallDimensionToAbsolute

SpecDimension == InitDimension /\ [][NextDimension]_vars

\* ================================================================ claims
\* the frames of the slides (line 326), in the order they were appended
BaseClips == SelectSeq(video_clips, LAMBDA c : c.kind = "image")

FadeIn(d) == <<[fx |-> "CrossFadeIn", duration |-> d]>>

\* ---------------------------------------------------------------- C1
\* Two slides of 2 s, one cue of 3 s on the first, none on the second,
\* audio_gap 0.2 s, fade of 0.8 s, one image per slide.
C1_Scenario ==
    /\ physical_slide_to_speech =
           <<[speeches |-> <<<<0, 0>>>>, video_overlays |-> <<>>, duration |-> 10],
             [speeches |-> <<>>, video_overlays |-> <<>>, duration |-> 10]>>
    /\ speech_data = <<[duration |-> 15, audio_clip |-> TRUE]>>
    /\ Len(physical_slide_images) = 2
    /\ audio_gap = 1
    /\ transition = [type |-> "fade", duration |-> 4]

\* C1 as stated: slide 1 lasts 3.2 s, its audio starts at 0, the frame of
\* slide 2 starts at 3.2 s with a fade-in of 0.8 s and spans [3.2, 6.0).
C1_AsStated ==
    (C1_Scenario /\ pc = "composed") =>
        /\ BaseClips[1].duration - transition.duration = 16
        /\ audio_clips = <<[clip |-> 0, start |-> 0]>>
        /\ BaseClips[2].start = 16
        /\ BaseClips[2].effects = FadeIn(4)
        /\ BaseClips[2].start + BaseClips[2].duration = 30

\* C1, amended: slide 1 is not the last slide and slide 2 has no cue, so slide 1
\* keeps its 2.0 s; its audio starts at 0; the frame of slide 2 starts at 2.0 s
\* with a fade-in of 0.8 s and spans [2.0, 4.8); the 1.2 s of narration left
\* over are played during slide 2, which ends with no backlog.
C1_Scenario_Timeline ==
    (C1_Scenario /\ pc = "composed") =>
        /\ Len(BaseClips) = 2
        /\ BaseClips[1].start = 0
        /\ BaseClips[1].duration - transition.duration = 10
        /\ BaseClips[1].effects = <<>>
        /\ audio_clips = <<[clip |-> 0, start |-> 0]>>
        /\ BaseClips[2].start = 10
        /\ BaseClips[2].effects = FadeIn(4)
        /\ BaseClips[2].start + BaseClips[2].duration = 24
        /\ time_played = 20
        /\ still_requied = 0

C1_Witness == C1_Scenario /\ pc = "composed" /\ err = "none"

\* ---------------------------------------------------------------- C2
\* C2: the frame of each slide starts where the frame of the slide before it
\* started plus that slide's final duration, the frame being longer than the
\* final duration by the transition; the clock is at the frames' total of
\* final durations, and after a slide it stands at that slide's start plus
\* its final duration (this_duration after lines 292 and 315).
C2_TimelineContinuity ==
    /\ \A k \in 1..(Len(BaseClips) - 1) :
           BaseClips[k + 1].start =
               BaseClips[k].start + (BaseClips[k].duration - transition.duration)
    /\ Len(BaseClips) >= 1 => BaseClips[1].start = 0
    /\ (pc = "slide" /\ physical_slide_i >= 1) =>
           /\ Len(BaseClips) = physical_slide_i
           /\ Last(BaseClips).duration = this_duration + transition.duration
           /\ time_played = Last(BaseClips).start + this_duration
    /\ (pc = "speech") =>
           /\ Len(BaseClips) = physical_slide_i
           /\ physical_slide_i >= 1 =>
                  time_played = Last(BaseClips).start
                                    + (Last(BaseClips).duration - transition.duration)

\* three slides with a transition, the first one enlengthened by its narration
C2_Witness ==
    /\ pc = "composed"
    /\ Len(BaseClips) = 3
    /\ transition.duration > 0
    /\ physical_slide_to_speech[1].video_overlays = <<>>
    /\ BaseClips[1].duration - transition.duration > DefaultDurationPhysical
    /\ BaseClips[3].start > BaseClips[2].start

\* ------------------------------------------------- query(): what was read
Range(seq) == {seq[i] : i \in 1..Len(seq)}

RECURSIVE Sum(_)
Sum(seq) == IF seq = <<>> THEN 0 ELSE Head(seq) + Sum(Tail(seq))

\* the item list and the slide count of the logical slide being replayed
CurrentItems == logical_slide_to_speech[logical_i]

CurrentCount == physical_count[logical_i]

IsCue(item) == item.t \in {"T2s", "T2s-video-overlay"}

IsOverride(item) == item.t \in {"T2s-duration-logical", "T2s-duration-physical"}

\* max(start_from - 1, 0), the zero-based index of the claims
ZeroBased(item) == IF item.start_from - 1 > 0 THEN item.start_from - 1 ELSE 0

BodiesOf(cues) == [q \in 1..Len(cues) |-> cues[q].body]

\* the pages that open a logical slide, in page order
RECURSIVE OpenersUpTo(_)
OpenersUpTo(n) ==
    IF n = 0 THEN <<>>
    ELSE IF Opens(J.pages[n]) THEN Append(OpenersUpTo(n - 1), n)
    ELSE OpenersUpTo(n - 1)

OpenerPage(l) == OpenersUpTo(Len(J.pages))[l]

\* the number of physical slides of the logical slides before l
Offset(l) == Sum(SubSeq(physical_count, 1, l - 1))

\* the logical slides whose physical slides are in physical_slide_to_speech
Completed ==
    IF pc \in {"returned", "flattened"} THEN 1..Len(logical_slide_to_speech)
    ELSE IF pc \in {"replay", "items", "failed"} THEN 1..(logical_i - 1)
    ELSE {}

NonHidden(n) == Cardinality({p \in 1..n : ~J.pages[p].hidden})

StartFromAbort == "AssertionError: start_from"

MultipleAbort == "AssertionError: multiple duration"

\* ---------------------------------------------------------------- C3
\* C3 as stated: a 'T2s-duration-physical' list of any other length than the
\* slide count, the empty list included, is replayed without failing and
\* leaves slide i with list[i], or with the last value of the list.
C3_AsStated ==
    [][(/\ pc = "items"
        /\ item_i <= Len(CurrentItems)
        /\ CurrentItems[item_i].t = "T2s-duration-physical"
        /\ ~is_non_defaut_duration_set
        /\ Len(CurrentItems[item_i].v) # CurrentCount)
       => /\ pc' = "items"
          /\ Len(this_physical_slides') = CurrentCount
          /\ LET v == CurrentItems[item_i].v IN
             \A i \in 1..CurrentCount :
                 this_physical_slides'[i].duration = IF i <= Len(v) THEN v[i] ELSE v[Len(v)]]_vars

\* What the code does keep of C3: every list that is not empty is reconciled.
C3_NonEmptyLists ==
    [][(/\ pc = "items"
        /\ item_i <= Len(CurrentItems)
        /\ CurrentItems[item_i].t = "T2s-duration-physical"
        /\ ~is_non_defaut_duration_set
        /\ CurrentItems[item_i].v # <<>>)
       => /\ pc' = "items"
          /\ Len(this_physical_slides') = CurrentCount
          /\ LET v == CurrentItems[item_i].v IN
             \A i \in 1..CurrentCount :
                 this_physical_slides'[i].duration = IF i <= Len(v) THEN v[i] ELSE v[Len(v)]]_vars

\* the replay of an empty list on a logical slide stopped at durations[-1]
C3_Witness ==
    /\ pc = "failed"
    /\ err = "IndexError: durations[-1]"
    /\ CurrentItems[item_i].t = "T2s-duration-physical"
    /\ CurrentItems[item_i].v = <<>>
    /\ CurrentCount >= 1

\* ---------------------------------------------------------------- C5
\* C5: every cue replayed is within its logical slide's count and sits on
\* exactly the physical slide max(start_from - 1, 0) of that logical slide;
\* the replay fails on a cue exactly when the cue is out of that range; the
\* cues on the physical slides of a finished logical slide are the cues of
\* the page that opened it, each on the slide its start_from names.
C5_IndexSafety ==
    /\ pc = "items" =>
           /\ Len(this_physical_slides) = CurrentCount
           /\ \A q \in 1..(item_i - 1) :
                  IsCue(CurrentItems[q]) => ZeroBased(CurrentItems[q]) < CurrentCount
           /\ \A i \in 1..CurrentCount :
                  /\ this_physical_slides[i].speeches =
                         BodiesOf(SelectSeq(SubSeq(CurrentItems, 1, item_i - 1),
                                            LAMBDA it : it.t = "T2s" /\ ZeroBased(it) = i - 1))
                  /\ Len(this_physical_slides[i].video_overlays) =
                         Cardinality({q \in 1..(item_i - 1) :
                                         /\ CurrentItems[q].t = "T2s-video-overlay"
                                         /\ ZeroBased(CurrentItems[q]) = i - 1})
                  /\ \A b \in Range(this_physical_slides[i].speeches) :
                         /\ b[1] = OpenerPage(logical_i)
                         /\ ZeroBased(J.pages[b[1]].t2s[b[2]]) = i - 1
                  /\ \A o \in Range(this_physical_slides[i].video_overlays) :
                         ZeroBased(o) = i - 1
    /\ err = StartFromAbort =>
           /\ pc = "failed"
           /\ IsCue(CurrentItems[item_i])
           /\ ZeroBased(CurrentItems[item_i]) >= CurrentCount
    /\ (pc = "failed" /\ err # StartFromAbort /\ logical_i <= Len(logical_slide_to_speech)
            /\ item_i <= Len(CurrentItems) /\ page_i > Len(J.pages)) =>
           (IsCue(CurrentItems[item_i]) => ZeroBased(CurrentItems[item_i]) < CurrentCount)
    /\ Len(physical_slide_to_speech) = (IF Completed = {} THEN 0 ELSE Offset(Cardinality(Completed) + 1))
    /\ \A l \in Completed :
           /\ \A i \in 1..physical_count[l] :
                  /\ \A b \in Range(physical_slide_to_speech[Offset(l) + i].speeches) :
                         /\ b[1] = OpenerPage(l)
                         /\ ZeroBased(J.pages[b[1]].t2s[b[2]]) = i - 1
                  /\ \A o \in Range(physical_slide_to_speech[Offset(l) + i].video_overlays) :
                         ZeroBased(o) = i - 1
           /\ \A q \in 1..Len(logical_slide_to_speech[l]) :
                  LET it == logical_slide_to_speech[l][q] IN
                  IsCue(it) =>
                      /\ ZeroBased(it) < physical_count[l]
                      /\ it.t = "T2s" =>
                             \A g \in 1..Len(physical_slide_to_speech) :
                                 it.body \in Range(physical_slide_to_speech[g].speeches)
                                     <=> g = Offset(l) + ZeroBased(it) + 1

\* two logical slides; a cue and an overlay on the second physical slide of
\* the first, a cue on the second logical slide
C5_Witness ==
    /\ pc = "returned"
    /\ Len(physical_count) = 2
    /\ physical_count[1] = 2
    /\ physical_slide_to_speech[2].speeches # <<>>
    /\ physical_slide_to_speech[2].video_overlays # <<>>
    /\ physical_slide_to_speech[3].speeches # <<>>

\* ---------------------------------------------------------------- C6
Overrides(items, n) == Cardinality({q \in 1..n : IsOverride(items[q])})

\* C6: the replay never gets past a second duration override of a logical
\* slide, whatever the two overrides are and whatever lies between them, so a
\* document that query() returns has at most one override on every logical
\* slide; and it fails for this reason only on the second override.
C6_SingleOverride ==
    /\ pc = "items" =>
           /\ Overrides(CurrentItems, item_i - 1) <= 1
           /\ is_non_defaut_duration_set <=> Overrides(CurrentItems, item_i - 1) = 1
    /\ err = MultipleAbort =>
           /\ pc = "failed"
           /\ IsOverride(CurrentItems[item_i])
           /\ Overrides(CurrentItems, item_i) = 2
    /\ \A l \in Completed :
           Overrides(logical_slide_to_speech[l], Len(logical_slide_to_speech[l])) <= 1

\* a logical override, a cue, a physical override: the third item fails
C6_Witness ==
    /\ err = MultipleAbort
    /\ Len(CurrentItems) = 3
    /\ CurrentItems[1].t = "T2s-duration-logical"
    /\ CurrentItems[2].t = "T2s"
    /\ CurrentItems[3].t = "T2s-duration-physical"
    /\ item_i = 3

\* ---------------------------------------------------------------- C7
\* C7: the slide counts add up to the number of pages read that are not
\* hidden, and query() returns as many physical slides as the document has
\* pages that are not hidden.
C7_GroupingCompleteness ==
    /\ pc = "group" => Sum(physical_count) = NonHidden(page_i - 1)
    /\ pc \in {"replay", "items", "returned", "flattened"} =>
           Sum(physical_count) = NonHidden(Len(J.pages))
    /\ pc \in {"returned", "flattened"} =>
           /\ Len(physical_slide_to_speech) = NonHidden(Len(J.pages))
           /\ Len(physical_count) = Len(logical_slide_to_speech)

\* a logical slide of two pages with a hidden continuation page between them
C7_Witness ==
    /\ pc = "returned"
    /\ Len(J.pages) = 3
    /\ J.pages[2].hidden
    /\ J.pages[2].overlay = 1
    /\ physical_count = <<2>>
    /\ Len(physical_slide_to_speech) = 2

\* ---------------------------------------------------------------- C9
\* the bodies of the 'T2s' items in the order of the document
CueBodies(items) == BodiesOf(SelectSeq(items, LAMBDA it : it.t = "T2s"))

EmittedCues ==
    Concat([l \in 1..Len(logical_slide_to_speech) |-> CueBodies(logical_slide_to_speech[l])])

\* the zero-based index of the cue whose body is b
CueIndex(b) == ZeroBased(J.pages[b[1]].t2s[b[2]])

\* within every logical slide the cues' indices never decrease
IndicesAscend ==
    \A l \in 1..Len(logical_slide_to_speech) :
        LET cues == SelectSeq(logical_slide_to_speech[l], LAMBDA it : it.t = "T2s") IN
        \A a \in 1..Len(cues), b \in 1..Len(cues) :
            a < b => ZeroBased(cues[a]) <= ZeroBased(cues[b])

\* C9 as stated: the flattened sequence is the cues in document order.
C9_AsStated == pc = "flattened" => speech_texts = EmittedCues

\* C9, amended: the flattened sequence holds every cue once, ordered by
\* logical slide, then by physical slide (the cue's index), then by place in
\* the item list; it is the document order exactly when the cues' indices
\* never decrease within a logical slide.
C9_FlattenedOrder ==
    pc = "flattened" =>
        /\ Len(speech_texts) = Len(EmittedCues)
        /\ Range(speech_texts) = Range(EmittedCues)
        /\ \A a \in 1..Len(speech_texts), b \in 1..Len(speech_texts) :
               a < b =>
                   LET x == speech_texts[a]
                       y == speech_texts[b]
                   IN \/ x[1] < y[1]
                      \/ x[1] = y[1] /\ CueIndex(x) < CueIndex(y)
                      \/ x[1] = y[1] /\ CueIndex(x) = CueIndex(y) /\ x[2] < y[2]
        /\ IndicesAscend <=> speech_texts = EmittedCues

\* a cue for the second physical slide is emitted before one for the first
C9_Witness ==
    /\ pc = "flattened"
    /\ Len(speech_texts) >= 2
    /\ speech_texts # EmittedCues

\* ------------------------------------------ compose_video_clip(): the walk
\* the slide the walk is at
CurrentSlide == physical_slide_to_speech[physical_slide_i + 1]

\* the loop of line 297 is about to take a speech
AtSpeech == pc = "speech" /\ speech_i <= Len(CurrentSlide.speeches)

\* the loop of line 297 has ended and lines 309-329 are next
AtEndOfSpeeches == pc = "speech" /\ speech_i > Len(CurrentSlide.speeches)

AudioAbort == "AssertionError: audios are not finished"

\* the time (clip and gap) of the clips lo..hi of speech_data that are not
\* placeholders
RECURSIVE AudibleTime(_, _)
AudibleTime(lo, hi) ==
    IF lo > hi THEN 0
    ELSE AudibleTime(lo, hi - 1)
             + (IF speech_data[hi].duration = 0 THEN 0 ELSE speech_data[hi].duration + audio_gap)

\* ---------------------------------------------------------------- C4
\* C4: taking a speech of a slide aborts exactly when the backlog is above 0;
\* the abort happens nowhere else, and it happens on the first speech of the
\* slide, before any time or any audio clip of the slide is scheduled.
C4_AbortIffBacklog ==
    [][/\ AtSpeech => (err' = AudioAbort <=> still_requied > 0)
       /\ (err' = AudioAbort /\ err # AudioAbort) =>
              /\ AtSpeech
              /\ pc' = "failed"
              /\ speech_i = 1
              /\ total_audio_time_in_this_slide = 0
              /\ audio_clips' = audio_clips
              /\ audio_started' = audio_started
              /\ \A k \in 1..Len(audio_clips) : audio_clips[k].start < time_played
       /\ ~AtSpeech => err' # AudioAbort]_vars

C4_Witness ==
    /\ err = AudioAbort
    /\ still_requied > 0
    /\ audio_clips # <<>>

\* ---------------------------------------------------------------- C8
\* the next speech is taken and its clip is a placeholder
TakesPlaceholder ==
    /\ AtSpeech
    /\ still_requied = 0
    /\ speech_data[audio_started + 1].duration = 0

\* C8: taking a placeholder moves the cursor by one and changes neither the
\* audio clips, nor the slide's narration time, nor the backlog; the narration
\* time of a slide is the time of its clips that are not placeholders, and a
\* clip starts at the slide's start plus the time of the clips of the slide
\* before it that are not placeholders.
C8_SilentPlaceholder ==
    /\ [][TakesPlaceholder =>
              /\ audio_started' = audio_started + 1
              /\ audio_clips' = audio_clips
              /\ total_audio_time_in_this_slide' = total_audio_time_in_this_slide
              /\ still_requied' = still_requied
              /\ time_played' = time_played
              /\ pc' = "speech"]_vars
    /\ [](pc = "speech" =>
              total_audio_time_in_this_slide =
                  AudibleTime(audio_started - (speech_i - 1) + 1, audio_started))
    /\ [][(AtSpeech /\ audio_clips' # audio_clips) =>
              audio_clips' =
                  Append(audio_clips,
                         [clip |-> audio_started,
                          start |-> time_played
                                        + AudibleTime(audio_started - (speech_i - 1) + 1,
                                                      audio_started)])]_vars
    /\ [][AtEndOfSpeeches =>
              still_requied' + this_duration' >=
                  still_requied + AudibleTime(audio_started - (speech_i - 1) + 1, audio_started)]_vars

\* a slide whose first speech is a placeholder and whose second is a clip,
\* which starts with the slide
C8_Witness ==
    /\ pc = "speech"
    /\ speech_i = 3
    /\ ~speech_data[audio_started - 1].audio_clip
    /\ speech_data[audio_started].audio_clip
    /\ Last(audio_clips) = [clip |-> audio_started - 1, start |-> time_played]
    /\ time_played > 0

\* ---------------------------------------------------------------- C10
\* C10: the backlog is never negative, and the end of a slide leaves
\* max(0, backlog with the slide's narration time - the slide's final duration).
C10_BacklogNonNegative ==
    /\ [](still_requied >= 0)
    /\ [][AtEndOfSpeeches =>
              /\ pc' = "slide"
              /\ still_requied' >= 0
              /\ still_requied' =
                     (IF still_requied + total_audio_time_in_this_slide - this_duration' >= 0
                          THEN still_requied + total_audio_time_in_this_slide - this_duration'
                      ELSE 0)]_vars

\* with the gap of 0.2 s, a slide was left with narration still to play
C10_Witness ==
    /\ pc = "slide"
    /\ audio_gap = 1
    /\ physical_slide_i >= 1
    /\ still_requied > 0
    /\ audio_clips # <<>>

\* ---------------------------------------------------------------- C11
TransitionAbort == "ValueError: transition"

BadTransition == transition.type = "none" /\ transition.duration # 0

\* C11: the run ends with the transition error exactly when the type is none
\* and the duration is not 0, it ends so at the check, with no clip emitted and
\* the clock, the backlog and the cursor at 0; with any other transition the
\* check is passed and the error never arises.
C11_ConfigurationCheck ==
    /\ (BadTransition /\ pc # "check") =>
           /\ pc = "failed"
           /\ err = TransitionAbort
    /\ err = TransitionAbort =>
           /\ BadTransition
           /\ pc = "failed"
           /\ video_clips = <<>>
           /\ audio_clips = <<>>
           /\ time_played = 0
           /\ still_requied = 0
           /\ audio_started = 0
           /\ physical_slide_i = 0
    /\ (~BadTransition /\ pc = "failed") => err # TransitionAbort
    /\ pc = "check" => err = "none"

\* the check failed on a composition that has slides, images and speeches
C11_Witness ==
    /\ err = TransitionAbort
    /\ Len(physical_slide_to_speech) >= 2
    /\ Len(physical_slide_images) >= 2
    /\ speech_data # <<>>

\* fade with duration 0 passes the check and the walk ends
C11_WitnessFadeZero ==
    /\ pc = "composed"
    /\ transition = [type |-> "fade", duration |-> 0]
    /\ Len(BaseClips) >= 2

\* ---------------------------------------------------------------- C12
\* the longest overlay video of a slide, 0 when it has none
OverlaySpan(slide) ==
    LET spans == {VideoFileClipDuration(slide.video_overlays[k].video) :
                      k \in 1..Len(slide.video_overlays)} \cup {0}
    IN CHOOSE x \in spans : \A y \in spans : y <= x

\* the slide is the last of the sequence, or the next slide has a speech
ExtensionDue ==
    \/ physical_slide_i + 1 = Len(physical_slide_to_speech)
    \/ physical_slide_to_speech[physical_slide_i + 2].speeches # <<>>

\* C12: during a slide's speeches the duration is max(declared, overlay span);
\* the end of the slide makes it max(that, backlog + gap) when the slide is the
\* last of the sequence or the next slide has a speech (placeholder or not),
\* and leaves it otherwise; the backlog, which holds the slide's narration
\* time, is then carried on less the final duration, and not below 0.
C12_DurationExtension ==
    /\ [](pc = "speech" =>
              this_duration = (IF CurrentSlide.duration >= OverlaySpan(CurrentSlide)
                                   THEN CurrentSlide.duration
                               ELSE OverlaySpan(CurrentSlide)))
    /\ [][AtEndOfSpeeches =>
              LET backlog == still_requied + total_audio_time_in_this_slide IN
              /\ this_duration' =
                     (IF ExtensionDue /\ backlog + audio_gap > this_duration
                          THEN backlog + audio_gap
                      ELSE this_duration)
              /\ still_requied' =
                     (IF backlog > this_duration' THEN backlog - this_duration' ELSE 0)
              /\ Last(video_clips').duration = this_duration' + transition.duration]_vars

\* slide 1 is enlengthened because slide 2 has a speech, a placeholder; slide 2
\* is not, slide 3 having none
C12_Witness ==
    /\ pc = "composed"
    /\ Len(BaseClips) = 3
    /\ audio_gap = 1
    /\ physical_slide_to_speech[1].video_overlays = <<>>
    /\ Len(physical_slide_to_speech[1].speeches) = 1
    /\ Len(physical_slide_to_speech[2].speeches) = 1
    /\ physical_slide_to_speech[3].speeches = <<>>
    /\ speech_data[1].audio_clip
    /\ ~speech_data[2].audio_clip
    /\ BaseClips[1].duration - transition.duration = 17
    /\ BaseClips[2].duration - transition.duration = DefaultDurationPhysical

\* ---------------------------------------------------------------- C13
\* audio_clip.duration of the k-th clip of audio_clips
AudioDuration(k) == speech_data[audio_clips[k].clip + 1].duration

\* C13: with a gap that is not negative, a clip emitted after another starts
\* no earlier than the other's end plus the gap.
C13_NarrationNeverOverlaps ==
    audio_gap >= 0 =>
        \A a \in 1..Len(audio_clips), b \in 1..Len(audio_clips) :
            a < b => audio_clips[b].start >= audio_clips[a].start + AudioDuration(a) + audio_gap

\* two clips on slide 1, whose narration runs over slide 2, which has none,
\* and a clip on slide 3
C13_Witness ==
    /\ pc = "composed"
    /\ audio_gap = 1
    /\ Len(audio_clips) = 3
    /\ Len(physical_slide_to_speech[1].speeches) = 2
    /\ physical_slide_to_speech[2].speeches = <<>>
    /\ Len(physical_slide_to_speech[3].speeches) = 1
    /\ physical_slide_to_speech[2].video_overlays = <<>>
    /\ audio_clips[2].start + AudioDuration(2) > BaseClips[2].start
    /\ audio_clips[3].start = BaseClips[3].start

\* ---------------------------------------------------------------- C14
\* C14: with a gap that is not negative the assertion of line 298 never
\* fails: the backlog is 0 in every state in which a slide that has speeches
\* is at its speeches, whatever the slides, the clips and the number of images.
C14_AssertionUnreachable ==
    audio_gap >= 0 =>
        /\ err # AudioAbort
        /\ (pc = "speech" /\ CurrentSlide.speeches # <<>>) => still_requied = 0

\* a slide with speeches begins them after an earlier slide's narration, which
\* was longer than that slide's declared duration
C14_Witness ==
    /\ pc = "speech"
    /\ audio_gap >= 0
    /\ physical_slide_i >= 1
    /\ speech_i = 1
    /\ CurrentSlide.speeches # <<>>
    /\ audio_clips # <<>>
    /\ time_played > physical_slide_i * DefaultDurationPhysical
    /\ \A k \in 1..physical_slide_i : physical_slide_to_speech[k].video_overlays = <<>>

\* with a negative gap the assertion fails
C14_AssertionFires ==
    /\ audio_gap < 0
    /\ pc = "failed"
    /\ err = AudioAbort

\* ---------------------------------------------------------------- C15
EnoughImages == Len(physical_slide_images) >= Len(physical_slide_to_speech)

\* every clip of audio_clips ends by time t
NarrationEndsBy(t) ==
    \A k \in 1..Len(audio_clips) : audio_clips[k].start + AudioDuration(k) <= t

\* C15: with an image for every slide and a gap that is not negative, the walk
\* ends with no backlog and with the clock at or after the end of every audio
\* clip.  With fewer images than slides the walk ends after the last image,
\* and the slide of that image is enlengthened only if the slide after it has
\* a speech.
C15_NarrationFits ==
    /\ (pc = "composed" /\ EnoughImages) =>
           /\ physical_slide_i = Len(physical_slide_to_speech)
           /\ audio_gap >= 0 =>
                  /\ still_requied = 0
                  /\ NarrationEndsBy(time_played)
    /\ (pc = "composed" /\ ~EnoughImages) =>
           /\ physical_slide_i = Len(physical_slide_images)
           /\ Len(BaseClips) = Len(physical_slide_images)
           /\ (/\ physical_slide_i >= 1
               /\ physical_slide_to_speech[physical_slide_i + 1].speeches = <<>>) =>
                  LET slide == physical_slide_to_speech[physical_slide_i] IN
                  this_duration = (IF slide.duration >= OverlaySpan(slide)
                                       THEN slide.duration
                                   ELSE OverlaySpan(slide))

\* an image for every slide; the last slide is enlengthened to its narration
C15_Witness ==
    /\ pc = "composed"
    /\ EnoughImages
    /\ audio_gap = 1
    /\ Len(physical_slide_to_speech) = 2
    /\ physical_slide_to_speech[2].speeches # <<>>
    /\ physical_slide_to_speech[2].video_overlays = <<>>
    /\ this_duration > DefaultDurationPhysical
    /\ audio_clips # <<>>
    /\ time_played = Last(audio_clips).start + AudioDuration(Len(audio_clips)) + 2 * audio_gap

\* fewer images than slides: the walk ends with a backlog and the clock
\* before the end of the narration
C15_GuaranteeLost ==
    /\ pc = "composed"
    /\ ~EnoughImages
    /\ audio_gap >= 0
    /\ still_requied > 0
    /\ ~NarrationEndsBy(time_played)

\* ---------------------------------------------------------------- C16
\* the number of cues on the first n slides
RECURSIVE CuesUpTo(_)
CuesUpTo(n) ==
    IF n = 0 THEN 0 ELSE CuesUpTo(n - 1) + Len(physical_slide_to_speech[n].speeches)

OneImagePerSlide == Len(physical_slide_images) = Len(physical_slide_to_speech)

\* one entry of speech_data per cue of the flattened order (main(), line 354)
OneClipPerCue == Len(speech_data) = CuesUpTo(Len(physical_slide_to_speech))

\* C16: with one clip per cue and one image per slide, when the q-th cue
\* (q = 1, 2, ...) of a slide is taken the cursor is the number of cues on the
\* slides before it plus q - 1, an index of the clip list; taking the cue
\* leaves it at that number plus q; no other step moves it; and the walk ends
\* with the cursor at the number of cues.
C16_CursorAlignment ==
    /\ []((OneClipPerCue /\ OneImagePerSlide) =>
              /\ AtSpeech =>
                     /\ audio_started = CuesUpTo(physical_slide_i) + (speech_i - 1)
                     /\ audio_started < Len(speech_data)
                     /\ err # "IndexError: speech_data"
              /\ AtEndOfSpeeches => audio_started = CuesUpTo(physical_slide_i + 1)
              /\ pc = "slide" => audio_started = CuesUpTo(physical_slide_i)
              /\ pc = "composed" => audio_started = Len(speech_data))
    /\ [][IF AtSpeech /\ pc' # "failed"
              THEN /\ audio_started' = audio_started + 1
                   /\ audio_started' = CuesUpTo(physical_slide_i) + speech_i
              ELSE audio_started' = audio_started]_vars

\* the second cue of the second slide is taken, after a placeholder
C16_Witness ==
    /\ OneClipPerCue
    /\ OneImagePerSlide
    /\ AtSpeech
    /\ physical_slide_i = 1
    /\ speech_i = 2
    /\ audio_started = 2
    /\ Len(physical_slide_to_speech[1].speeches) = 1
    /\ ~speech_data[2].audio_clip

\* ---------------------------------------------------------------- C17
\* C17: the slides walked have one frame each, in order, on the slide's image;
\* the frame of the slide just walked starts at the slide's start and lasts the
\* final duration plus the transition; a frame has a fade-in, as long as the
\* transition, exactly when it is not the first and the type is fade; and a
\* frame ends the transition's duration after the next one starts.
C17_BaseClipEmission ==
    /\ Len(BaseClips) = physical_slide_i
    /\ \A k \in 1..Len(BaseClips) :
           /\ BaseClips[k].source = physical_slide_images[k]
           /\ BaseClips[k].effects =
                  (IF k > 1 /\ transition.type = "fade" THEN FadeIn(transition.duration)
                   ELSE <<>>)
           /\ k < Len(BaseClips) =>
                  BaseClips[k].start + BaseClips[k].duration
                      = BaseClips[k + 1].start + transition.duration
    /\ (pc = "slide" /\ physical_slide_i >= 1) =>
           /\ Last(video_clips) = Last(BaseClips)
           /\ Last(BaseClips).start = time_played - this_duration
           /\ Last(BaseClips).duration = this_duration + transition.duration

\* three slides faded, one of them with an overlay video: four visual clips,
\* three frames, the first without a fade-in
C17_Witness ==
    /\ pc = "composed"
    /\ transition = [type |-> "fade", duration |-> 4]
    /\ Len(BaseClips) = 3
    /\ Len(video_clips) = 4
    /\ BaseClips[1].effects = <<>>
    /\ BaseClips[2].effects = FadeIn(4)
    /\ BaseClips[3].effects = FadeIn(4)
    /\ BaseClips[2].start + BaseClips[2].duration = BaseClips[3].start + 4

\* ---------------------------------------------------------------- C18
\* r is an integer nearest to n / d
Nearest(r, n, d) ==
    LET twice == 2 * (r * d - n) IN
    (IF twice >= 0 THEN twice ELSE -twice) <= d

\* C18 as stated: None resolves to unset, "p%" to the integer nearest to
\* reference * p / 100, and a number to the integer nearest to it.
C18_AsStated ==
    pc = "resolved" =>
        IF dimension.t = "None" THEN absolute = [t |-> "None"]
        ELSE /\ absolute.t = "int"
             /\ IF dimension.t = "str" /\ dimension.percent
                    THEN Nearest(absolute.v, reference * dimension.num, 100 * 100)
                ELSE Nearest(absolute.v, dimension.num, 100)

\* What the code does: None resolves to None; any other value to the number
\* without its fraction (int(): towards 0), which is less than 1 away.
C18_Truncates ==
    pc = "resolved" =>
        IF dimension.t = "None" THEN absolute = [t |-> "None"]
        ELSE LET n == IF dimension.t = "str" /\ dimension.percent
                          THEN reference * dimension.num ELSE 100 * dimension.num
                 r == absolute.v * 100 * 100
             IN /\ absolute.t = "int"
                /\ IF n >= 0 THEN r <= n /\ n < r + 100 * 100
                   ELSE r >= n /\ n > r - 100 * 100

\* "15%" of a canvas of 10 resolves to 1
C18_Witness ==
    /\ pc = "resolved"
    /\ dimension = [t |-> "str", percent |-> TRUE, num |-> 1500]
    /\ reference = 10
    /\ absolute = [t |-> "int", v |-> 1]

====
